---- MODULE Spec2Model ----
(***************************************************************************)
(* A model of units.py: unit values carrying a dimension vector and an SI  *)
(* magnitude, their constructors and their arithmetic operators.           *)
(*                                                                         *)
(* Representation choices.                                                 *)
(*  - A Python number is an exact rational <<num, den>> in lowest terms    *)
(*    with den > 0 (the rounding of floats is not modelled; int and float  *)
(*    are not told apart, as 5 == 5.0 in Python).                          *)
(*  - A Python dict is a TLA+ function.  Every dimension dict of the       *)
(*    program is a copy of DIMENSIONLESS with some values replaced, so its *)
(*    insertion (= iteration) order is the ascending order of its keys.    *)
(*  - A Python str that the code builds character by character (a symbol)  *)
(*    is a sequence of characters; the superscript characters are named    *)
(*    by their code points ("U+00B9" is superscript one).                  *)
(*  - A Python value is a record with a field kind: "num" (a number),      *)
(*    "unit" (an instance of Unit or of a subclass), "str", "obj" (an      *)
(*    exception object that was returned, not raised); the outcome of a    *)
(*    call is such a value or a record of kind "raise".                    *)
(***************************************************************************)
EXTENDS Integers, Sequences, FiniteSets, TLC

\* ---------------------------------------------------------------- numbers

RECURSIVE Gcd(_, _)
Gcd(a, b) == IF b = 0 THEN a ELSE Gcd(b, a % b)

Abs(i) == IF i < 0 THEN -i ELSE i

\* The largest numerator and denominator the model computes with: the
\* program's floats reach far beyond it, the model's integers are 32 bits wide.
MaxMagnitude == 1000000000

\* The rational n/d (d # 0) in lowest terms with a positive denominator.
Rat(n, d) ==
    LET g == Gcd(Abs(n), Abs(d))
        s == IF d < 0 THEN -1 ELSE 1
    IN  <<(s * n) \div g, (s * d) \div g>>

Int2Rat(i) == <<i, 1>>
Zero == Int2Rat(0)
\* The result of an operation whose numerator or denominator exceeds
\* MaxMagnitude; the state machine explores no such result.
OutOfRange == <<0, 0>>
MulFits(a, b) == a = 0 \/ b = 0 \/ Abs(a) <= MaxMagnitude \div Abs(b)

RNeg(p) == <<-p[1], p[2]>>
RAdd(p, q) ==
    IF p = OutOfRange \/ q = OutOfRange THEN OutOfRange
    ELSE LET g == Gcd(p[2], q[2])
             pm == q[2] \div g
             qm == p[2] \div g
         IN  IF MulFits(p[1], pm) /\ MulFits(q[1], qm) /\ MulFits(qm, q[2])
             THEN Rat(p[1] * pm + q[1] * qm, qm * q[2])
             ELSE OutOfRange
RSub(p, q) == RAdd(p, RNeg(q))
RMul(p, q) ==
    IF p = OutOfRange \/ q = OutOfRange THEN OutOfRange
    ELSE LET g1 == Gcd(Abs(p[1]), q[2])
             g2 == Gcd(Abs(q[1]), p[2])
             a == p[1] \div g1
             b == q[1] \div g2
             c == p[2] \div g2
             d == q[2] \div g1
         IN  IF MulFits(a, b) /\ MulFits(c, d) THEN Rat(a * b, c * d) ELSE OutOfRange
\* q # Zero: the callers raise ZeroDivisionError before dividing.
RDiv(p, q) ==
    IF q = OutOfRange THEN OutOfRange
    ELSE RMul(p, IF q[1] < 0 THEN <<-q[2], -q[1]>> ELSE <<q[2], q[1]>>)

\* The literals 1000.0 and 273.15 of the conversion rules.
Thousand == Int2Rat(1000)
KelvinOffset == Rat(27315, 100)

\* ----------------------------------------------------------------- values

Num(q) == [kind |-> "num", val |-> q]
Str(s) == [kind |-> "str", val |-> s]
Raise(exc, msg) == [kind |-> "raise", exc |-> exc, msg |-> msg]
\* TypeError(msg), built and handed back with `return`.
ExceptionObject(exc, msg) == [kind |-> "obj", cls |-> exc, msg |-> msg]
\* An operand that is neither a number nor a Unit: the str 'x'.
Other == Str("x")
None == [kind |-> "none"]

IsNumber(v) == v.kind = "num"
IsUnit(v) == v.kind = "unit"
IsRaise(v) == v.kind = "raise"

\* ------------------------------------------------------- base dimensions

TIME == 1
LENGTH == 2
MASS == 3
SUBSTANCE == 4
LUMINOUS == 5
CURRENT == 6
TEMPERATURE == 7

USE_UNICODE == TRUE

DIMENSIONLESS ==
    (TIME :> 0) @@ (LENGTH :> 0) @@ (MASS :> 0) @@ (SUBSTANCE :> 0) @@
    (LUMINOUS :> 0) @@ (CURRENT :> 0) @@ (TEMPERATURE :> 0)

EmptyDict == <<>>

\* dict.update: the keys of d, then the new keys of e; e's values win.
Update(d, e) ==
    [k \in (DOMAIN d) \cup (DOMAIN e) |-> IF k \in DOMAIN e THEN e[k] ELSE d[k]]

\* dict.items() of a dimension dict: its (key, value) pairs in insertion
\* order, which is the order of DIMENSIONLESS.
Items(d) ==
    LET order == <<TIME, LENGTH, MASS, SUBSTANCE, LUMINOUS, CURRENT, TEMPERATURE>>
        keys == SelectSeq(order, LAMBDA k : k \in DOMAIN d)
    IN  [i \in 1..Len(keys) |-> <<keys[i], d[keys[i]]>>]

_dimensions(dims) == Update(DIMENSIONLESS, dims)

\* The dict DIMENSION_NAMES in insertion order.
DIMENSION_NAMES == <<
    <<"time", _dimensions(TIME :> 1)>>,
    <<"length", _dimensions(LENGTH :> 1)>>,
    <<"mass", _dimensions(MASS :> 1)>>,
    <<"substance", _dimensions(SUBSTANCE :> 1)>>,
    <<"luminous intensity", _dimensions(LUMINOUS :> 1)>>,
    <<"electrical current", _dimensions(CURRENT :> 1)>>,
    <<"temperature", _dimensions(TEMPERATURE :> 1)>>,
    <<"velocity", _dimensions((LENGTH :> 1) @@ (TIME :> -1))>>,
    <<"acceleration", _dimensions((LENGTH :> 1) @@ (TIME :> -2))>>,
    <<"momentum", _dimensions((LENGTH :> 1) @@ (TIME :> -1) @@ (MASS :> 1))>>,
    <<"force", _dimensions((LENGTH :> 1) @@ (TIME :> -2) @@ (MASS :> 1))>>,
    <<"energy", _dimensions((LENGTH :> 2) @@ (TIME :> -2) @@ (MASS :> 1))>> >>

\* ------------------------------------------------------------ formatting

DigitChar(i) == <<"0", "1", "2", "3", "4", "5", "6", "7", "8", "9">>[i + 1]

RECURSIVE Digits(_)
Digits(i) == IF i < 10 THEN <<DigitChar(i)>>
             ELSE Digits(i \div 10) \o <<DigitChar(i % 10)>>

\* str(exp) of an int.
str(exp) == IF exp < 0 THEN <<"-">> \o Digits(-exp) ELSE Digits(exp)

char_map(c) ==
    CASE c = "1" -> "U+00B9"
      [] c = "2" -> "U+00B2"
      [] c = "3" -> "U+00B3"
      [] c = "4" -> "U+2074"
      [] c = "5" -> "U+2075"
      [] c = "6" -> "U+2076"
      [] c = "7" -> "U+2077"
      [] c = "8" -> "U+2078"
      [] c = "9" -> "U+2079"
      [] c = "0" -> "U+2070"
      [] c = "-" -> "U+207B"

get_unicode_exp(exp) ==
    LET chars == str(exp)
    IN  [i \in 1..Len(chars) |-> char_map(chars[i])]

RECURSIVE Concat(_)
Concat(parts) == IF parts = <<>> THEN <<>> ELSE Head(parts) \o Concat(Tail(parts))

RECURSIVE Join(_, _)
Join(sep, parts) ==
    IF parts = <<>> THEN <<>>
    ELSE IF Len(parts) = 1 THEN parts[1]
    ELSE parts[1] \o sep \o Join(sep, Tail(parts))

\* units: a sequence of (symbol, exponent) pairs.
format_unit_str(units) ==
    IF USE_UNICODE
    THEN Concat([i \in 1..Len(units) |-> units[i][1] \o get_unicode_exp(units[i][2])])
    ELSE Join(<<"*">>, [i \in 1..Len(units) |-> units[i][1] \o <<"^">> \o str(units[i][2])])

\* --------------------------------------------------------------- classes

\* The classes of the module that can be instantiated.
NamedClasses ==
    {"Unit", "Second", "Meter", "Kilogram", "Mole", "Candela", "Ampere", "Kelvin",
     "Newton", "Joule", "Kilometer", "Gram", "DegreesCelsius"}

\* The _dimensions entry of the class body (attrs.get('_dimensions', {})).
DeclaredDimensions(cls) ==
    CASE cls = "Second" -> (TIME :> 1)
      [] cls = "Meter" -> (LENGTH :> 1)
      [] cls = "Kilogram" -> (MASS :> 1)
      [] cls = "Mole" -> (SUBSTANCE :> 1)
      [] cls = "Candela" -> (LUMINOUS :> 1)
      [] cls = "Ampere" -> (CURRENT :> 1)
      [] cls = "Kelvin" -> (TEMPERATURE :> 1)
      [] cls = "Newton" -> (MASS :> 1) @@ (LENGTH :> 1) @@ (TIME :> -2)
      [] cls = "Joule" -> (MASS :> 1) @@ (LENGTH :> 2) @@ (TIME :> -2)
      [] cls = "Kilometer" -> (LENGTH :> 1)
      [] cls = "Gram" -> (MASS :> 1)
      [] cls = "DegreesCelsius" -> (TEMPERATURE :> 1)
      [] OTHER -> EmptyDict

\* UnitMeta.__new__: the class attribute _dimensions of class cls.
UnitMeta__new__(cls) == Update(DIMENSIONLESS, DeclaredDimensions(cls))

\* Unit itself declares no _symbol.
NoSymbol == <<"AttributeError">>

\* The class attribute _symbol.
ClassSymbol(cls) ==
    CASE cls = "Second" -> <<"s">>
      [] cls = "Meter" -> <<"m">>
      [] cls = "Kilogram" -> <<"k", "g">>
      [] cls = "Mole" -> <<"m", "o", "l">>
      [] cls = "Candela" -> <<"c", "d">>
      [] cls = "Ampere" -> <<"A">>
      [] cls = "Kelvin" -> <<"K">>
      [] cls = "Newton" -> <<"N">>
      [] cls = "Joule" -> <<"J">>
      [] cls = "Kilometer" -> <<"k", "m">>
      [] cls = "Gram" -> <<"g">>
      [] cls = "DegreesCelsius" -> <<"C">>
      [] OTHER -> NoSymbol

\* SI_BASE_UNITS[dim]._symbol
SI_BASE_UNITS(dim) ==
    CASE dim = TIME -> "Second"
      [] dim = LENGTH -> "Meter"
      [] dim = MASS -> "Kilogram"
      [] dim = SUBSTANCE -> "Mole"
      [] dim = LUMINOUS -> "Candela"
      [] dim = CURRENT -> "Ampere"
      [] dim = TEMPERATURE -> "Kelvin"

\* self._convert_to_SI(value), by the class of self.
_convert_to_SI(cls, value) ==
    CASE cls = "Kilometer" -> RMul(value, Thousand)
      [] cls = "Gram" -> RDiv(value, Thousand)
      [] cls = "DegreesCelsius" -> RAdd(value, KelvinOffset)
      [] OTHER -> value

\* self._convert_from_SI(value), by the class of self.
_convert_from_SI(cls, value) ==
    CASE cls = "Kilometer" -> RDiv(value, Thousand)
      [] cls = "Gram" -> RMul(value, Thousand)
      [] cls = "DegreesCelsius" -> RSub(value, KelvinOffset)
      [] OTHER -> value

\* An instance: its class, self._value and the _dimensions and _symbol that
\* attribute lookup finds (on the instance, else on the class).
Instance(cls, value, dimensions, symbol) ==
    [kind |-> "unit", cls |-> cls, value |-> value,
     dimensions |-> dimensions, symbol |-> symbol]

_get_value(self) == _convert_from_SI(self.cls, self.value)

\* Unit.__init__ with a Unit argument's magnitude run through the
\* to-SI rule, as a number is.
Unit__init__rescaling(self, value) ==
    IF IsNumber(value)
    THEN Instance(self.cls, _convert_to_SI(self.cls, value.val),
                  self.dimensions, self.symbol)
    ELSE IF IsUnit(value)
    THEN IF value.dimensions = self.dimensions
         THEN Instance(self.cls, _convert_to_SI(self.cls, value.value),
                       self.dimensions, self.symbol)
         ELSE Raise("IncompatibleUnitsError", "Units %s and %s are not compatible")
    ELSE Raise("TypeError", "Type %s is not a value")

\* Unit.__init__(self, value); self carries cls, dimensions and symbol.
Unit__init__(self, value) ==
    IF IsNumber(value)
    THEN Instance(self.cls, _convert_to_SI(self.cls, value.val),
                  self.dimensions, self.symbol)
    ELSE IF IsUnit(value)
    THEN IF value.dimensions = self.dimensions
         THEN Instance(self.cls, value.value, self.dimensions, self.symbol)
         ELSE Raise("IncompatibleUnitsError", "Units %s and %s are not compatible")
    ELSE Raise("TypeError", "Type %s is not a value")

\* CompoundUnit.__init__ with `exp > 0` for `exp != 0`.
CompoundUnit__init__positive(value, dimensions) ==
    LET self == [cls |-> "CompoundUnit", dimensions |-> dimensions, symbol |-> NoSymbol]
        made == Unit__init__(self, value)
        items == Items(dimensions)
        kept == SelectSeq(items, LAMBDA it : it[2] > 0)
        units == [i \in 1..Len(kept) |->
                    <<ClassSymbol(SI_BASE_UNITS(kept[i][1])), kept[i][2]>>]
    IN  IF IsRaise(made) THEN made
        ELSE [made EXCEPT !.symbol = format_unit_str(units)]

\* CompoundUnit.__init__(self, value, dimensions)
CompoundUnit__init__(value, dimensions) ==
    LET self == [cls |-> "CompoundUnit", dimensions |-> dimensions, symbol |-> NoSymbol]
        made == Unit__init__(self, value)
        items == Items(dimensions)
        kept == SelectSeq(items, LAMBDA it : it[2] # 0)
        units == [i \in 1..Len(kept) |->
                    <<ClassSymbol(SI_BASE_UNITS(kept[i][1])), kept[i][2]>>]
    IN  IF IsRaise(made) THEN made
        ELSE [made EXCEPT !.symbol = format_unit_str(units)]

\* The call cls(*args): CompoundUnit takes (value, dimensions), every other
\* class takes (value).
New(cls, args) ==
    IF cls = "CompoundUnit"
    THEN IF Len(args) = 2
         THEN CompoundUnit__init__(args[1], args[2])
         ELSE Raise("TypeError", "__init__() missing 1 required positional argument: 'dimensions'")
    ELSE Unit__init__([cls |-> cls, dimensions |-> UnitMeta__new__(cls),
                       symbol |-> ClassSymbol(cls)], args[1])

\* any() that takes a negative exponent for a false value.
any_positive(dimensions) == \E dim \in DOMAIN dimensions : dimensions[dim] > 0

\* any(values of the dict)
any(dimensions) == \E dim \in DOMAIN dimensions : dimensions[dim] # 0

\* Unit.__mul__(self, other)
__mul__(self, other) ==
    IF IsNumber(other)
    THEN New(self.cls, <<Num(RMul(_get_value(self), other.val))>>)
    ELSE IF IsUnit(other)
    THEN LET valSI == RMul(self.value, other.value)
             dimensions == [dim \in DOMAIN self.dimensions |->
                              self.dimensions[dim] + other.dimensions[dim]]
         IN  IF ~any(dimensions) THEN Num(valSI)
             ELSE New("CompoundUnit", <<Num(valSI), dimensions>>)
    ELSE ExceptionObject("TypeError", "Cannot multiply unit by type %s")

\* Unit.__rmul__(self, other)
__rmul__(self, other) == __mul__(self, other)

\* Unit.__truediv__(self, other)
__truediv__(self, other) ==
    IF IsNumber(other)
    THEN IF other.val = Zero THEN Raise("ZeroDivisionError", "division by zero")
         ELSE New(self.cls, <<Num(RDiv(_get_value(self), other.val))>>)
    ELSE IF IsUnit(other)
    THEN IF other.value = Zero THEN Raise("ZeroDivisionError", "division by zero")
         ELSE LET valSI == RDiv(self.value, other.value)
                  dimensions == [dim \in DOMAIN self.dimensions |->
                                   self.dimensions[dim] - other.dimensions[dim]]
              IN  IF ~any(dimensions) THEN Num(valSI)
                  ELSE New("CompoundUnit", <<Num(valSI), dimensions>>)
    ELSE ExceptionObject("TypeError", "Cannot divide unit by type %s")

\* Unit.__rtruediv__ with the collapse of __truediv__.
__rtruediv__collapsing(self, other) ==
    IF IsNumber(other)
    THEN IF _get_value(self) = Zero THEN Raise("ZeroDivisionError", "division by zero")
         ELSE LET valSI == _convert_to_SI(self.cls, RDiv(other.val, _get_value(self)))
                  dimensions == [dim \in DOMAIN self.dimensions |-> -self.dimensions[dim]]
              IN  IF ~any(dimensions) THEN Num(valSI)
                  ELSE New("CompoundUnit", <<Num(valSI), dimensions>>)
    ELSE ExceptionObject("TypeError", "Type %s cannot divide unit")

\* Unit.__rtruediv__ without the negation of the exponents.
__rtruediv__unnegated(self, other) ==
    IF IsNumber(other)
    THEN IF _get_value(self) = Zero THEN Raise("ZeroDivisionError", "division by zero")
         ELSE LET valSI == _convert_to_SI(self.cls, RDiv(other.val, _get_value(self)))
                  dimensions == [dim \in DOMAIN self.dimensions |-> self.dimensions[dim]]
              IN  New("CompoundUnit", <<Num(valSI), dimensions>>)
    ELSE ExceptionObject("TypeError", "Type %s cannot divide unit")

\* Unit.__rtruediv__(self, other): other / self
__rtruediv__(self, other) ==
    IF IsNumber(other)
    THEN IF _get_value(self) = Zero THEN Raise("ZeroDivisionError", "division by zero")
         ELSE LET valSI == _convert_to_SI(self.cls, RDiv(other.val, _get_value(self)))
                  dimensions == [dim \in DOMAIN self.dimensions |-> -self.dimensions[dim]]
              IN  New("CompoundUnit", <<Num(valSI), dimensions>>)
    ELSE ExceptionObject("TypeError", "Type %s cannot divide unit")

\* Unit.__add__(self, other); the name IncompatibleUnitError is bound nowhere
\* in the module, so evaluating it raises NameError.
__add__(self, other) ==
    IF IsUnit(other)
    THEN IF other.dimensions = self.dimensions
         THEN New(self.cls, <<Num(_convert_from_SI(self.cls, RAdd(self.value, other.value)))>>)
         ELSE Raise("NameError", "name 'IncompatibleUnitError' is not defined")
    ELSE Raise("TypeError", "Type %s is not a unit")

\* Unit.__sub__(self, other)
__sub__(self, other) ==
    IF IsUnit(other)
    THEN IF other.dimensions = self.dimensions
         THEN New(self.cls, <<Num(_convert_from_SI(self.cls, RSub(self.value, other.value)))>>)
         ELSE Raise("NameError", "name 'IncompatibleUnitError' is not defined")
    ELSE Raise("TypeError", "Type %s is not a unit")

\* Unit.get_unit_type comparing only the exponents a registered vector sets.
get_unit_type_loose(self) ==
    LET hits == SelectSeq(DIMENSION_NAMES,
                          LAMBDA e : \A d \in DOMAIN e[2] :
                                        e[2][d] # 0 => self.dimensions[d] = e[2][d])
    IN  IF hits # <<>> THEN Head(hits)[1] ELSE "complex type"

\* Unit.get_unit_type(self)
get_unit_type(self) ==
    LET hits == SelectSeq(DIMENSION_NAMES, LAMBDA e : self.dimensions = e[2])
    IN  IF hits # <<>> THEN Head(hits)[1] ELSE "complex type"

\* issubclass(exc, TypeError) for the exception classes that occur.
IsTypeError(exc) == exc \in {"TypeError", "IncompatibleUnitsError"}

\* The expressions a * b and a / b with at least one Unit operand: the left
\* operand's method when it is a Unit, else the right operand's reflected
\* method (numbers and str return NotImplemented for a Unit operand).
BinaryMul(a, b) == IF IsUnit(a) THEN __mul__(a, b) ELSE __rmul__(b, a)
BinaryTrueDiv(a, b) == IF IsUnit(a) THEN __truediv__(a, b) ELSE __rtruediv__(b, a)

\* ----------------------------------------------------------------- inputs

\* The most operations (arithmetic operators and conversions) run in one
\* behaviour of Spec, and of SpecChain.
MaxOps == 2
MaxChain == 3

\* The number literals a program passes to the constructors and operators.
Numbers == {Int2Rat(0), Int2Rat(2)}

\* The constructor calls cls(number) a program makes.
UnitInputs ==
    {<<"Meter", Int2Rat(10)>>, <<"Second", Int2Rat(2)>>, <<"Second", Int2Rat(0)>>,
     <<"Kilometer", Int2Rat(5)>>, <<"Kilogram", Int2Rat(1)>>,
     <<"DegreesCelsius", RNeg(KelvinOffset)>>, <<"Unit", Int2Rat(5)>>}

ChainInputs ==
    {<<"Kilogram", Int2Rat(1)>>, <<"Meter", Int2Rat(2)>>, <<"Second", Int2Rat(2)>>,
     <<"Candela", Int2Rat(1)>>}

\* --------------------------------------------------------- state machine

VARIABLES
    x,      \* the value of the expression evaluated so far, or what it raised
    saved,  \* a Unit value bound to a name of the program, for later use
    last,   \* the last operation: its name, class argument and operands
    n,      \* the number of operations run
    chain   \* history: whether x results from a Unit value by * and / with
            \* Unit right operands only, and the signed sum of their vectors

vars == <<x, saved, last, n, chain>>

Op(op, cls, lhs, rhs) == [op |-> op, cls |-> cls, lhs |-> lhs, rhs |-> rhs]
NoChain == [ok |-> FALSE, sum |-> DIMENSIONLESS]

Init ==
    /\ x = None
    /\ saved = None
    /\ last = Op("import", "", None, None)
    /\ n = 0
    /\ chain = NoChain

\* The values an operator's right operand is drawn from.
Fresh(inputs) == {New(c[1], <<Num(c[2])>>) : c \in inputs}
Saved == IF saved = None THEN {} ELSE {saved}
Operands == Fresh(UnitInputs) \cup {Num(k) : k \in Numbers} \cup {Other} \cup Saved
ChainOperands == Fresh(ChainInputs) \cup Saved

\* x = cls(arg) for a number or a non-number arg
Construct(cls, arg) ==
    /\ x' = New(cls, <<arg>>)
    /\ last' = Op("construct", cls, None, arg)
    /\ chain' = IF IsUnit(x') THEN [ok |-> TRUE, sum |-> x'.dimensions] ELSE NoChain
    /\ UNCHANGED <<saved, n>>

\* x = v for a plain number or a str: the left operand of v * u and v / u
Literal(v) ==
    /\ x' = v
    /\ last' = Op("literal", "", None, v)
    /\ chain' = NoChain
    /\ UNCHANGED <<saved, n>>

\* x = cls(x): construction from an existing Unit value
Convert(cls) ==
    /\ IsUnit(x)
    /\ x' = New(cls, <<x>>)
    /\ last' = Op("convert", cls, None, x)
    /\ n' = n + 1
    /\ chain' = NoChain
    /\ UNCHANGED saved

\* The magnitude of v was computed within MaxMagnitude.
Bounded(v) ==
    /\ IsUnit(v) => v.value # OutOfRange
    /\ IsNumber(v) => v.val # OutOfRange

ChainStep(rhs, sign) ==
    IF chain.ok /\ IsUnit(rhs)
    THEN [ok |-> TRUE,
          sum |-> [d \in DOMAIN DIMENSIONLESS |-> chain.sum[d] + sign * rhs.dimensions[d]]]
    ELSE NoChain

\* x = x * rhs
Mul(rhs) ==
    /\ x.kind \in {"num", "unit", "str", "obj"}
    /\ IsUnit(x) \/ IsUnit(rhs)
    /\ x' = BinaryMul(x, rhs)
    /\ Bounded(x')
    /\ last' = Op("mul", "", x, rhs)
    /\ n' = n + 1
    /\ chain' = ChainStep(rhs, 1)
    /\ UNCHANGED saved

\* x = x / rhs
TrueDiv(rhs) ==
    /\ x.kind \in {"num", "unit", "str", "obj"}
    /\ IsUnit(x) \/ IsUnit(rhs)
    /\ x' = BinaryTrueDiv(x, rhs)
    /\ Bounded(x')
    /\ last' = Op("truediv", "", x, rhs)
    /\ n' = n + 1
    /\ chain' = ChainStep(rhs, -1)
    /\ UNCHANGED saved

\* x = x + rhs
Add(rhs) ==
    /\ IsUnit(x)
    /\ x' = __add__(x, rhs)
    /\ Bounded(x')
    /\ last' = Op("add", "", x, rhs)
    /\ n' = n + 1
    /\ chain' = NoChain
    /\ UNCHANGED saved

\* x = x - rhs
Sub(rhs) ==
    /\ IsUnit(x)
    /\ x' = __sub__(x, rhs)
    /\ Bounded(x')
    /\ last' = Op("sub", "", x, rhs)
    /\ n' = n + 1
    /\ chain' = NoChain
    /\ UNCHANGED saved

\* x = x.get_unit_type()
GetUnitType ==
    /\ IsUnit(x)
    /\ x' = Str(get_unit_type(x))
    /\ last' = Op("get_unit_type", "", x, None)
    /\ chain' = NoChain
    /\ UNCHANGED <<saved, n>>

\* saved = x: a compound result is kept for use as a right operand
Save ==
    /\ IsUnit(x)
    /\ x.cls = "CompoundUnit"
    /\ saved = None
    /\ saved' = x
    /\ UNCHANGED <<x, last, n, chain>>

Next ==
    \/ n < MaxOps /\ \E c \in UnitInputs : Construct(c[1], Num(c[2]))
    \/ n < MaxOps /\ \E cls \in NamedClasses : Construct(cls, Other)
    \/ n < MaxOps /\ \E v \in {Num(k) : k \in Numbers} \cup {Other} : Literal(v)
    \/ n < MaxOps /\ \E cls \in NamedClasses : Convert(cls)
    \/ n < MaxOps /\ \E rhs \in Operands : Mul(rhs)
    \/ n < MaxOps /\ \E rhs \in Operands : TrueDiv(rhs)
    \/ n < MaxOps /\ \E rhs \in Operands : Add(rhs)
    \/ n < MaxOps /\ \E rhs \in Operands : Sub(rhs)
    \/ GetUnitType
    \/ Save

Spec == Init /\ [][Next]_vars

\* Chains of * and / over Unit right operands, longer than Spec's.
NextChain ==
    \/ n < MaxChain /\ \E c \in ChainInputs : Construct(c[1], Num(c[2]))
    \/ n < MaxChain /\ \E rhs \in ChainOperands : Mul(rhs)
    \/ n < MaxChain /\ \E rhs \in ChainOperands : TrueDiv(rhs)
    \/ GetUnitType
    \/ Save

SpecChain == Init /\ [][NextChain]_vars

\* ----------------------------------------------------------------- claims

Dims == DOMAIN DIMENSIONLESS
VectorsDiffer(a, b) == \E d \in Dims : a.dimensions[d] # b.dimensions[d]
VectorsEqual(a, b) == \A d \in Dims : a.dimensions[d] = b.dimensions[d]
AllZero(v) == \A d \in Dims : v[d] = 0
IsCompound(v) == IsUnit(v) /\ v.cls = "CompoundUnit"
UnitByUnit == last.op \in {"mul", "truediv"} /\ IsUnit(last.lhs) /\ IsUnit(last.rhs)

\* C1: a + b and a - b of two Unit values whose dimension vectors differ
\* raise IncompatibleUnitsError.
C1_IncompatibleAddSubRaises ==
    (last.op \in {"add", "sub"} /\ IsUnit(last.rhs) /\ VectorsDiffer(last.lhs, last.rhs))
        => (IsRaise(x) /\ x.exc = "IncompatibleUnitsError")

\* C2: construction, multiply, divide, number-divided-by-unit, add and
\* subtract raise TypeError when the operand is neither a number nor a Unit
\* value; nothing is returned.
C2_InvalidOperandRaises ==
    LET foreign(v) == v.kind \in {"str", "obj"}
    IN  (\/ last.op = "construct" /\ foreign(last.rhs)
         \/ last.op \in {"mul", "truediv", "add", "sub"}
                /\ IsUnit(last.lhs) /\ foreign(last.rhs)
         \/ last.op = "truediv" /\ foreign(last.lhs) /\ IsUnit(last.rhs))
        => (IsRaise(x) /\ IsTypeError(x.exc))

\* C3: u * k and u / k (k a number, nonzero for /) return an instance of
\* u's class with u's dimension vector and native value native(u) * k,
\* native(u) / k, for u of a named class and for a compound u alike.
C3_ScaleByNumber ==
    (/\ last.op \in {"mul", "truediv"}
     /\ IsUnit(last.lhs) /\ IsNumber(last.rhs)
     /\ last.op = "truediv" => last.rhs.val # Zero)
        => (/\ IsUnit(x)
            /\ x.cls = last.lhs.cls
            /\ x.dimensions = last.lhs.dimensions
            /\ _get_value(x) = IF last.op = "mul"
                               THEN RMul(_get_value(last.lhs), last.rhs.val)
                               ELSE RDiv(_get_value(last.lhs), last.rhs.val))

MeterTenBySecondTwo ==
    /\ last.op = "truediv"
    /\ IsUnit(last.lhs) /\ last.lhs.cls = "Meter" /\ _get_value(last.lhs) = Int2Rat(10)
    /\ IsUnit(last.rhs) /\ last.rhs.cls = "Second" /\ _get_value(last.rhs) = Int2Rat(2)

\* C4 as claimed: Meter(10) / Second(2) is a compound value of magnitude 5
\* with the symbol m(1)s(-1): the length symbol first.
C4_SymbolLengthFirst ==
    MeterTenBySecondTwo
        => (/\ IsCompound(x)
            /\ x.value = Int2Rat(5) /\ _get_value(x) = Int2Rat(5)
            /\ x.symbol = <<"m", "U+00B9", "s", "U+207B", "U+00B9">>)

\* C4 as amended: Meter(10) / Second(2) is a compound value of magnitude 5
\* with the symbol s(-1)m(1): the time symbol with exponent -1, then the
\* length symbol with exponent 1, the order of the base dimensions.
C4_SymbolTimeFirst ==
    MeterTenBySecondTwo
        => (/\ IsCompound(x)
            /\ x.value = Int2Rat(5) /\ _get_value(x) = Int2Rat(5)
            /\ x.symbol = <<"s", "U+207B", "U+00B9", "m", "U+00B9">>)

C4_Witness == MeterTenBySecondTwo /\ IsCompound(x)

\* C5: a * b and a / b of two Unit values (b's SI magnitude nonzero for /)
\* are the plain number V exactly when every exponent of D is 0, and else a
\* compound value of vector D and SI magnitude V, where V is the product
\* (quotient) of the SI magnitudes and D the exponent-wise sum (difference).
C5_UnitByUnit ==
    (UnitByUnit /\ (last.op = "truediv" => last.rhs.value # Zero))
        => LET a == last.lhs
               b == last.rhs
               V == IF last.op = "mul" THEN RMul(a.value, b.value)
                    ELSE RDiv(a.value, b.value)
               D == [d \in Dims |-> IF last.op = "mul"
                                    THEN a.dimensions[d] + b.dimensions[d]
                                    ELSE a.dimensions[d] - b.dimensions[d]]
           IN  /\ IsNumber(x) <=> AllZero(D)
               /\ IsNumber(x) => x.val = V
               /\ ~IsNumber(x) => /\ IsCompound(x)
                                  /\ x.dimensions = D
                                  /\ x.value = V

\* C5's case: a compound operand, part of whose vector the other operand
\* cancels; the result is a compound value.
C5_Witness ==
    /\ UnitByUnit
    /\ IsCompound(last.lhs)
    /\ IsCompound(x)
    /\ \E d \in Dims : last.lhs.dimensions[d] # 0 /\ x.dimensions[d] = 0

\* Reachable too: two compound operands whose vectors cancel to a number.
C5_WitnessCollapse ==
    UnitByUnit /\ IsCompound(last.lhs) /\ IsCompound(last.rhs) /\ IsNumber(x)

NumberByUnit ==
    /\ last.op = "truediv" /\ IsNumber(last.lhs) /\ IsUnit(last.rhs)
    /\ _get_value(last.rhs) # Zero

\* k / u for a number k and a Unit value u of nonzero native value: always a
\* compound value, of the negated vector and of SI magnitude
\* to_SI_u(k / native(u)).
C6_NumberByUnit ==
    NumberByUnit
        => (/\ IsCompound(x)
            /\ x.dimensions = [d \in Dims |-> -last.rhs.dimensions[d]]
            /\ x.value = _convert_to_SI(last.rhs.cls,
                                        RDiv(last.lhs.val, _get_value(last.rhs))))

UnitByItself == last.op = "truediv" /\ IsUnit(last.lhs) /\ last.rhs = last.lhs

\* C6 as claimed: k / u as above, and u / u is the plain number 1 for every
\* u of nonzero native value.
C6_Original ==
    /\ C6_NumberByUnit
    /\ (UnitByItself /\ _get_value(last.lhs) # Zero) => x = Num(Int2Rat(1))

\* C6 as amended: k / u as above, and u / u is the plain number 1 for every
\* u of nonzero SI magnitude.
C6_Amended ==
    /\ C6_NumberByUnit
    /\ (UnitByItself /\ last.lhs.value # Zero) => x = Num(Int2Rat(1))

\* C6's case: k / u for a u whose vector is all-zero.
C6_Witness == NumberByUnit /\ AllZero(last.rhs.dimensions) /\ IsCompound(x)

\* Reachable too: u / u collapsed to the plain number 1.
C6_WitnessItself == UnitByItself /\ x = Num(Int2Rat(1))

\* C7: a + b and a - b of two Unit values of equal vectors return an
\* instance of a's class whose native value is a's from-SI rule applied to
\* the sum (difference) of the SI magnitudes.
C7_AddSubSameDimension ==
    (last.op \in {"add", "sub"} /\ IsUnit(last.rhs) /\ VectorsEqual(last.lhs, last.rhs))
        => (/\ IsUnit(x)
            /\ x.cls = last.lhs.cls
            /\ _get_value(x) =
                 _convert_from_SI(last.lhs.cls,
                                  IF last.op = "add"
                                  THEN RAdd(last.lhs.value, last.rhs.value)
                                  ELSE RSub(last.lhs.value, last.rhs.value)))

\* C8: B(a) for a named class B and a Unit value a has a's SI magnitude,
\* unconverted, when a's vector equals B's, and raises
\* IncompatibleUnitsError otherwise; converting the result back to a's class
\* gives a value equal to a.
C8_ConstructFromUnit ==
    /\ [](last.op = "convert" =>
            IF \A d \in Dims : last.rhs.dimensions[d] = UnitMeta__new__(last.cls)[d]
            THEN IsUnit(x) /\ x.cls = last.cls /\ x.value = last.rhs.value
            ELSE IsRaise(x) /\ x.exc = "IncompatibleUnitsError")
    /\ [][(/\ last.op = "convert" /\ IsUnit(x)
           /\ last'.op = "convert" /\ last'.rhs = x /\ last'.cls = last.rhs.cls)
            => (/\ x' = last.rhs
                /\ _get_value(x') = _get_value(last.rhs))]_vars

\* C8's case: a value of one scale constructed from a value of another.
C8_Witness ==
    /\ last.op = "convert"
    /\ IsUnit(x)
    /\ x.value = last.rhs.value
    /\ _get_value(x) # _get_value(last.rhs)

\* C9: get_unit_type(u) is the first name of DIMENSION_NAMES whose vector
\* equals u's on all seven exponents and "complex type" when there is none:
\* "velocity" for length/time, "force" for mass*length/time^2, "complex
\* type" for mass*luminous intensity.
C9_GetUnitType ==
    last.op = "get_unit_type"
        => LET u == last.lhs
               hits == {i \in 1..Len(DIMENSION_NAMES) :
                          \A d \in Dims : DIMENSION_NAMES[i][2][d] = u.dimensions[d]}
               first == CHOOSE i \in hits : \A j \in hits : i <= j
           IN  /\ x.kind = "str"
               /\ x.val = "complex type" <=> hits = {}
               /\ hits # {} => x.val = DIMENSION_NAMES[first][1]
               /\ u.dimensions = <<-1, 1, 0, 0, 0, 0, 0>> => x.val = "velocity"
               /\ u.dimensions = <<-2, 1, 1, 0, 0, 0, 0>> => x.val = "force"
               /\ u.dimensions = <<0, 0, 1, 0, 1, 0, 0>> => x.val = "complex type"

\* C9's case: the type of a compound value built as mass * length / time / time.
C9_Witness ==
    /\ last.op = "get_unit_type"
    /\ IsCompound(last.lhs)
    /\ n = 3
    /\ x.val = "force"

\* Reachable too: the sentinel for mass * luminous intensity.
C9_WitnessSentinel ==
    /\ last.op = "get_unit_type"
    /\ last.lhs.dimensions = <<0, 0, 1, 0, 1, 0, 0>>
    /\ x.val = "complex type"

C10_WitnessMul ==
    chain.ok /\ last.op = "mul" /\ IsNumber(last.lhs) /\ IsUnit(x)

====
